---- MODULE Spec2Model ----
(***************************************************************************)
(* Model of SocleCalculator (src/main.py): the partition enumerator        *)
(* (generate_partitions, subset_partitions), the bounded system solver     *)
(* (solve_system) and the interactive driver (Master).                     *)
(***************************************************************************)
EXTENDS Integers, Sequences, FiniteSets, TLC

VARIABLES pc, gen, sub, slv, mst

vars == <<pc, gen, sub, slv, mst>>

----------------------------------------------------------------------------
(* Bounds of the model *)

\* largest n handed to generate_partitions
MaxN == 5
\* largest degree of a partition handed to subset_partitions and to Master
MaxDeg == 3
\* largest value of the five solver arguments
MaxK == 6
\* the solver arguments range down to -NegK
NegK == 1

KRange == (0 - NegK)..MaxK

\* Python's None for an omitted max_part; a given max_part m is <<m>>
None == <<>>

Min(a, b) == IF a < b THEN a ELSE b

----------------------------------------------------------------------------
(* 1. Helper functions *)

RECURSIVE degree(_)
degree(partition) ==
    IF partition = <<>> THEN 0 ELSE Head(partition) + degree(Tail(partition))

\* max_part after "if max_part is None or max_part > n: max_part = n"
EffectiveMax(n, max_part) ==
    IF max_part = None \/ max_part[1] > n THEN n ELSE max_part[1]

\* range(max_part, 0, -1) as the sequence of values of "first"
FirstRange_asc(m) == [i \in 1..m |-> i]
FirstRange(m) == [i \in 1..m |-> m - i + 1]

\* the max_part argument of the recursive call generate_partitions(n - first, first)
RestBound_none(first) == None
RestBound(first) == <<first>>

\* the sequence of tuples the generator yields, in yield order
RECURSIVE generate_partitions(_, _)
generate_partitions(n, max_part) ==
    IF n = 0 THEN << <<>> >>
    ELSE LET m == EffectiveMax(n, max_part)
             firsts == FirstRange(m)
             block(first) ==
                 LET rests == generate_partitions(n - first, RestBound(first))
                 IN  [j \in 1..Len(rests) |-> <<first>> \o rests[j]]
             RECURSIVE cat(_)
             cat(i) == IF i > Len(firsts) THEN <<>>
                       ELSE block(firsts[i]) \o cat(i + 1)
         IN  cat(1)

\* range(d + 1) as the sequence of values of "n"
SubsetRange_short(d) == [i \in 1..d |-> i - 1]
SubsetRange(d) == [i \in 1..(d + 1) |-> i - 1]

\* one iteration of the loop of subset_partitions: result.extend(generate_partitions(n))
SubsetExtend(result, n) == result \o generate_partitions(n, None)

RECURSIVE SubsetLoop(_, _, _)
SubsetLoop(result, rng, i) ==
    IF i > Len(rng) THEN result
    ELSE SubsetLoop(SubsetExtend(result, rng[i]), rng, i + 1)

subset_partitions(partition) ==
    SubsetLoop(<<>>, SubsetRange(degree(partition)), 1)

----------------------------------------------------------------------------
(* 2. The solver *)

\* the sanity check "k2 < k1 and k4 < k3"
Admissible_weak(k1, k2, k3, k4) == k2 <= k1 /\ k4 <= k3
Admissible(k1, k2, k3, k4) == k2 < k1 /\ k4 < k3

X1Of(k, k1, k2, k3, k4) == k1 - k2 + k3 - k4 - k

MaxSum_max(k1, k2, k3, k4) == IF k1 - k2 > k3 - k4 THEN k1 - k2 ELSE k3 - k4
MaxSum(k1, k2, k3, k4) == Min(k1 - k2, k3 - k4)

MaxX2_short(max_sum, x1) == max_sum - x1 - 1
MaxX2(max_sum, x1) == max_sum - x1

\* "x1 < b and x2 < b and x3 < b and x4 < b"
BoundOK_weak(x1, x2, x3, x4, b) == x1 <= b /\ x2 <= b /\ x3 <= b /\ x4 <= b
BoundOK(x1, x2, x3, x4, b) == x1 < b /\ x2 < b /\ x3 < b /\ x4 < b

\* the dict appended to solutions
SolutionRecord_swapped(x1, x2, x3, x4, k2, k4) ==
    [deg_delta |-> x1, deg_gamma |-> x2, p |-> x3, q |-> x4,
     deg_lambda_p |-> k4, deg_mu_p |-> k2]
SolutionRecord(x1, x2, x3, x4, k2, k4) ==
    [deg_delta |-> x1, deg_gamma |-> x2, p |-> x3, q |-> x4,
     deg_lambda_p |-> k2, deg_mu_p |-> k4]

\* solutions.append(record)
Emit_front(solutions, rec) == <<rec>> \o solutions
Emit(solutions, rec) == Append(solutions, rec)

\* one iteration of the search loop for the candidate x2; branch names the
\* path taken: "neg", "k1", "k3" (the three continue statements) or "emit"
LoopBody(solutions, x1, x2, k1, k2, k3, k4) ==
    LET s  == x1 + x2
        x3 == (k1 - k2) - s
        x4 == (k3 - k4) - s
    IN  IF x3 < 0 \/ x4 < 0
        THEN [solutions |-> solutions, branch |-> "neg"]
        ELSE IF ~BoundOK(x1, x2, x3, x4, k1)
        THEN [solutions |-> solutions, branch |-> "k1"]
        ELSE IF ~BoundOK(x1, x2, x3, x4, k3)
        THEN [solutions |-> solutions, branch |-> "k3"]
        ELSE [solutions |-> Emit(solutions, SolutionRecord(x1, x2, x3, x4, k2, k4)),
              branch |-> "emit"]

\* which return statement the prologue reaches: "gate", "negx1", "noroom",
\* or "loop" when the search loop is entered
Prologue(k, k1, k2, k3, k4) ==
    IF ~Admissible(k1, k2, k3, k4) THEN "gate"
    ELSE IF X1Of(k, k1, k2, k3, k4) < 0 THEN "negx1"
    ELSE IF X1Of(k, k1, k2, k3, k4) > MaxSum(k1, k2, k3, k4) THEN "noroom"
    ELSE "loop"

RECURSIVE SolveLoop(_, _, _, _, _, _, _, _)
SolveLoop(solutions, x2, max_x2, x1, k1, k2, k3, k4) ==
    IF x2 > max_x2 THEN solutions
    ELSE SolveLoop(LoopBody(solutions, x1, x2, k1, k2, k3, k4).solutions,
                   x2 + 1, max_x2, x1, k1, k2, k3, k4)

\* the list solve_system returns
solve_system(k, k1, k2, k3, k4) ==
    IF Prologue(k, k1, k2, k3, k4) # "loop" THEN <<>>
    ELSE LET x1 == X1Of(k, k1, k2, k3, k4)
         IN  SolveLoop(<<>>, 0, MaxX2(MaxSum(k1, k2, k3, k4), x1), x1, k1, k2, k3, k4)

----------------------------------------------------------------------------
(* State *)

\* frames of the four operations when they are not running
GenIdle == [n |-> 0, max_part |-> None, yielded |-> <<>>]
SubIdle == [partition |-> <<>>, d |-> 0, i |-> 1, result |-> <<>>]
SlvIdle == [k |-> 0, k1 |-> 0, k2 |-> 0, k3 |-> 0, k4 |-> 0, x1 |-> 0,
            max_x2 |-> 0, x2 |-> 0, solutions |-> <<>>, branch |-> "none",
            ret |-> "none"]
MstIdle == [lam |-> <<>>, mu |-> <<>>, k1 |-> 0, k3 |-> 0,
            lam_subset |-> <<>>, mu_subset |-> <<>>,
            lam_choice |-> 0, mu_choice |-> 0,
            lam_prime |-> <<>>, mu_prime |-> <<>>, k2 |-> 0, k4 |-> 0,
            k |-> 0, sols |-> <<>>]

Init ==
    /\ pc = "idle"
    /\ gen = GenIdle
    /\ sub = SubIdle
    /\ slv = SlvIdle
    /\ mst = MstIdle

\* the set of elements of a sequence
Range(seq) == {seq[i] : i \in DOMAIN seq}

\* well-formed partitions of degree at most MaxDeg, the inputs of the callers
InputPartitions == UNION {Range(generate_partitions(d, None)) : d \in 0..MaxDeg}

----------------------------------------------------------------------------
(* generate_partitions consumed as a generator *)

GenCall(n, max_part) ==
    /\ pc = "idle"
    /\ pc' = "gen"
    /\ gen' = [n |-> n, max_part |-> max_part, yielded |-> <<>>]
    /\ sub' = SubIdle /\ slv' = SlvIdle /\ mst' = MstIdle

\* next(): the generator yields its next tuple
GenNext ==
    /\ pc = "gen"
    /\ LET all == generate_partitions(gen.n, gen.max_part)
       IN  /\ Len(gen.yielded) < Len(all)
           /\ gen' = [gen EXCEPT !.yielded = Append(@, all[Len(@) + 1])]
    /\ UNCHANGED <<pc, sub, slv, mst>>

\* StopIteration
GenStop ==
    /\ pc = "gen"
    /\ Len(gen.yielded) = Len(generate_partitions(gen.n, gen.max_part))
    /\ pc' = "gen_done"
    /\ UNCHANGED <<gen, sub, slv, mst>>

----------------------------------------------------------------------------
(* subset_partitions, one loop iteration per step *)

SubsetCall(partition) ==
    /\ pc = "idle"
    /\ pc' = "subset_loop"
    /\ sub' = [partition |-> partition, d |-> degree(partition), i |-> 1,
               result |-> <<>>]
    /\ gen' = GenIdle /\ slv' = SlvIdle /\ mst' = MstIdle

SubsetIter ==
    /\ pc = "subset_loop"
    /\ sub.i <= Len(SubsetRange(sub.d))
    /\ sub' = [sub EXCEPT !.result = SubsetExtend(@, SubsetRange(sub.d)[sub.i]),
                          !.i = @ + 1]
    /\ UNCHANGED <<pc, gen, slv, mst>>

SubsetReturn ==
    /\ pc = "subset_loop"
    /\ sub.i > Len(SubsetRange(sub.d))
    /\ pc' = "subset_done"
    /\ UNCHANGED <<gen, sub, slv, mst>>

----------------------------------------------------------------------------
(* solve_system, one loop iteration per step *)

SolveCall(k, k1, k2, k3, k4) ==
    /\ pc = "idle"
    /\ LET ret == Prologue(k, k1, k2, k3, k4)
           x1 == X1Of(k, k1, k2, k3, k4)
       IN  /\ pc' = IF ret = "loop" THEN "solve_loop" ELSE "solve_done"
           /\ slv' = [k |-> k, k1 |-> k1, k2 |-> k2, k3 |-> k3, k4 |-> k4,
                      x1 |-> IF ret = "gate" THEN 0 ELSE x1,
                      max_x2 |-> IF ret = "loop"
                                 THEN MaxX2(MaxSum(k1, k2, k3, k4), x1) ELSE 0,
                      x2 |-> 0, solutions |-> <<>>, branch |-> "none",
                      ret |-> ret]
    /\ gen' = GenIdle /\ sub' = SubIdle /\ mst' = MstIdle

SolveIter ==
    /\ pc = "solve_loop"
    /\ slv.x2 <= slv.max_x2
    /\ LET r == LoopBody(slv.solutions, slv.x1, slv.x2, slv.k1, slv.k2, slv.k3, slv.k4)
       IN  slv' = [slv EXCEPT !.solutions = r.solutions, !.branch = r.branch,
                              !.x2 = @ + 1]
    /\ UNCHANGED <<pc, gen, sub, mst>>

SolveReturn ==
    /\ pc = "solve_loop"
    /\ slv.x2 > slv.max_x2
    /\ pc' = "solve_done"
    /\ slv' = [slv EXCEPT !.ret = "end"]
    /\ UNCHANGED <<gen, sub, mst>>

----------------------------------------------------------------------------
(* 3. Master, one step per group of inputs *)

\* lam and mu are read; |lam|, |mu| and the two menus are computed and printed
MasterEnterPartitions(lam, mu) ==
    /\ pc = "idle"
    /\ pc' = "master_choose"
    /\ mst' = [MstIdle EXCEPT !.lam = lam, !.mu = mu,
                              !.k1 = degree(lam), !.k3 = degree(mu),
                              !.lam_subset = subset_partitions(lam),
                              !.mu_subset = subset_partitions(mu)]
    /\ gen' = GenIdle /\ sub' = SubIdle /\ slv' = SlvIdle

\* Python list indexing: a negative index counts from the end; 0 stands for
\* an index out of range (IndexError), otherwise the 1-based position
ListIndex(list, idx) ==
    LET j == IF idx < 0 THEN idx + Len(list) ELSE idx
    IN  IF j < 0 \/ j >= Len(list) THEN 0 ELSE j + 1

\* the two indices are read and lam', mu' and their degrees are looked up
MasterChoose(lam_choice, mu_choice) ==
    /\ pc = "master_choose"
    /\ LET li == ListIndex(mst.lam_subset, lam_choice)
           mi == ListIndex(mst.mu_subset, mu_choice)
       IN  IF li = 0 \/ mi = 0
           THEN /\ pc' = "master_error"
                /\ mst' = [mst EXCEPT !.lam_choice = lam_choice,
                                      !.mu_choice = mu_choice]
           ELSE /\ pc' = "master_k"
                /\ mst' = [mst EXCEPT !.lam_choice = lam_choice,
                                      !.mu_choice = mu_choice,
                                      !.lam_prime = mst.lam_subset[li],
                                      !.mu_prime = mst.mu_subset[mi],
                                      !.k2 = degree(mst.lam_subset[li]),
                                      !.k4 = degree(mst.mu_subset[mi])]
    /\ UNCHANGED <<gen, sub, slv>>

\* k is read and the solver is called: sols = solve_system(k, k1, k3, k2, k4)
MasterSolve(k) ==
    /\ pc = "master_k"
    /\ pc' = "master_done"
    /\ mst' = [mst EXCEPT !.k = k,
                          !.sols = solve_system(k, mst.k1, mst.k3, mst.k2, mst.k4)]
    /\ UNCHANGED <<gen, sub, slv>>

----------------------------------------------------------------------------

\* the inputs of a call are drawn only where a call can start
Next ==
    \/ /\ pc = "idle"
       /\ \E n \in 0..MaxN, max_part \in {None} \cup {<<m>> : m \in 0..(MaxN + 1)} :
              GenCall(n, max_part)
    \/ GenNext
    \/ GenStop
    \/ /\ pc = "idle"
       /\ \E partition \in InputPartitions : SubsetCall(partition)
    \/ SubsetIter
    \/ SubsetReturn
    \/ /\ pc = "idle"
       /\ \E k \in KRange, k1 \in KRange, k2 \in KRange, k3 \in KRange, k4 \in KRange :
              SolveCall(k, k1, k2, k3, k4)
    \/ SolveIter
    \/ SolveReturn
    \/ /\ pc = "idle"
       /\ \E lam \in InputPartitions, mu \in InputPartitions :
              MasterEnterPartitions(lam, mu)
    \/ /\ pc = "master_choose"
       /\ \E lam_choice \in (0 - 1)..Len(mst.lam_subset),
             mu_choice \in (0 - 1)..Len(mst.mu_subset) :
              MasterChoose(lam_choice, mu_choice)
    \/ /\ pc = "master_k"
       /\ \E k \in KRange : MasterSolve(k)

Spec == Init /\ [][Next]_vars

----------------------------------------------------------------------------
(* Reference definitions used by the properties *)

\* the four unknowns of a record as a tuple
Unknowns(r) == <<r.deg_delta, r.deg_gamma, r.p, r.q>>

\* all admissible tuples, by exhaustive search over the box the bounds allow
BruteSolutions(k, k1, k2, k3, k4) ==
    LET box == 0..(Min(k1, k3) - 1)
    IN  {x \in box \X box \X box \X box :
            /\ 2 * x[2] + x[1] + x[3] + x[4] = k
            /\ x[1] + x[2] + x[3] = k1 - k2
            /\ x[1] + x[2] + x[4] = k3 - k4}

\* number of partitions of n with every part <= m (standard recurrence)
RECURSIVE PCount(_, _)
PCount(n, m) ==
    IF n = 0 THEN 1
    ELSE IF m <= 0 THEN 0
    ELSE PCount(n, m - 1) + (IF n >= m THEN PCount(n - m, m) ELSE 0)

\* the partition numbers p(0), p(1), ...
PTable == <<1, 1, 2, 3, 5, 7, 11, 15, 22, 30>>
P(n) == PTable[n + 1]

\* how often each part 1..n occurs in a tuple
Mult(t, n) == [v \in 1..n |-> Cardinality({j \in DOMAIN t : t[j] = v})]

RECURSIVE WeightedSum(_, _)
WeightedSum(f, n) == IF n = 0 THEN 0 ELSE n * f[n] + WeightedSum(f, n - 1)

\* the partitions of n with parts <= m, as multiplicity functions
BruteMults(n, m) ==
    {f \in [1..n -> 0..n] :
        /\ WeightedSum(f, n) = n
        /\ \A v \in 1..n : v > m => f[v] = 0}

IsPartitionOf(t, n) ==
    /\ \A j \in DOMAIN t : t[j] >= 1
    /\ \A j \in 1..(Len(t) - 1) : t[j] >= t[j + 1]
    /\ degree(t) = n

NoDuplicates(seq) == \A i, j \in DOMAIN seq : i # j => seq[i] # seq[j]

\* a is lexicographically greater than b
LexGreater(a, b) ==
    \E i \in 1..Len(a) :
        /\ \A j \in 1..(i - 1) : j <= Len(b) /\ a[j] = b[j]
        /\ (i > Len(b) \/ a[i] > b[i])

RECURSIVE ConcatUpTo(_, _)
ConcatUpTo(d, D) ==
    IF d > D THEN <<>> ELSE generate_partitions(d, None) \o ConcatUpTo(d + 1, D)

RECURSIVE SumP(_)
SumP(D) == IF D < 0 THEN 0 ELSE P(D) + SumP(D - 1)

----------------------------------------------------------------------------
(* Properties *)

\* C1: soundness of solve_system: every record has x1..x4 >= 0, satisfies the
\* three equations (I), (II), (III), and has every xi strictly below k1 and k3.
C1_Soundness ==
    \A i \in DOMAIN slv.solutions :
        LET r == slv.solutions[i]
            x == Unknowns(r)
        IN  /\ \A j \in 1..4 : x[j] >= 0 /\ x[j] < slv.k1 /\ x[j] < slv.k3
            /\ 2 * x[2] + x[1] + x[3] + x[4] = slv.k
            /\ x[1] + x[2] + x[3] = slv.k1 - slv.k2
            /\ x[1] + x[2] + x[4] = slv.k3 - slv.k4

\* a returned record lies right under the strict bound while another candidate
\* of the same call was dropped
C1_Witness ==
    /\ pc = "solve_done"
    /\ Len(slv.solutions) < slv.max_x2 + 1
    /\ \E i \in DOMAIN slv.solutions :
           \E j \in 1..4 : Unknowns(slv.solutions[i])[j] = Min(slv.k1, slv.k3) - 1

\* C2: completeness of solve_system: when k2 < k1 and k4 < k3 the result lists
\* every admissible tuple exactly once, so it equals the brute-force set; and
\* solve_system(6, 6, 1, 6, 1) returns exactly (4,0,1,1) and (4,1,0,0).
C2_Completeness ==
    pc = "solve_done" /\ slv.k2 < slv.k1 /\ slv.k4 < slv.k3 =>
        /\ {Unknowns(slv.solutions[i]) : i \in DOMAIN slv.solutions}
              = BruteSolutions(slv.k, slv.k1, slv.k2, slv.k3, slv.k4)
        /\ NoDuplicates(slv.solutions)
        /\ (<<slv.k, slv.k1, slv.k2, slv.k3, slv.k4>> = <<6, 6, 1, 6, 1>> =>
               /\ Len(slv.solutions) = 2
               /\ Unknowns(slv.solutions[1]) = <<4, 0, 1, 1>>
               /\ Unknowns(slv.solutions[2]) = <<4, 1, 0, 0>>)

C2_Witness ==
    /\ pc = "solve_done"
    /\ <<slv.k, slv.k1, slv.k2, slv.k3, slv.k4>> = <<6, 6, 1, 6, 1>>
    /\ Len(slv.solutions) = 2

\* C3: for n >= 0 and max_part >= 1 or omitted, generate_partitions yields
\* exactly the partitions of n with largest part <= max_part, each once: all
\* tuples are positive, non-increasing, sum to n, none twice, none missing, and
\* with max_part omitted their number is p(n).
C3_ExactPartitions ==
    pc = "gen_done" /\ (gen.max_part = None \/ gen.max_part[1] >= 1) =>
        LET m == IF gen.max_part = None THEN gen.n ELSE gen.max_part[1]
        IN  /\ \A i \in DOMAIN gen.yielded :
                   /\ IsPartitionOf(gen.yielded[i], gen.n)
                   /\ \A j \in DOMAIN gen.yielded[i] : gen.yielded[i][j] <= m
            /\ NoDuplicates(gen.yielded)
            /\ {Mult(gen.yielded[i], gen.n) : i \in DOMAIN gen.yielded}
                  = BruteMults(gen.n, m)
            /\ Len(gen.yielded) = PCount(gen.n, m)
            /\ (gen.max_part = None => Len(gen.yielded) = P(gen.n))
            /\ (gen.n = 0 => gen.yielded = << <<>> >>)

C3_Witness ==
    /\ pc = "gen_done"
    /\ gen.n = 5
    /\ gen.max_part = None
    /\ Len(gen.yielded) = 7

\* C4: generate_partitions(n) yields in strictly decreasing lexicographic
\* order: each output is lexicographically greater than the next one; for
\* n = 5 the output is (5), (4,1), (3,2), (3,1,1), (2,2,1), (2,1,1,1), (1,1,1,1,1).
C4_LexOrder ==
    gen.max_part = None =>
        /\ \A i \in 1..(Len(gen.yielded) - 1) :
               LexGreater(gen.yielded[i], gen.yielded[i + 1])
        /\ (pc = "gen_done" /\ gen.n = 5 =>
               gen.yielded = << <<5>>, <<4, 1>>, <<3, 2>>, <<3, 1, 1>>,
                                <<2, 2, 1>>, <<2, 1, 1, 1>>, <<1, 1, 1, 1, 1>> >>)

C4_Witness ==
    /\ pc = "gen_done"
    /\ gen.n = 5
    /\ gen.max_part = None
    /\ gen.yielded[3] = <<3, 2>>
    /\ gen.yielded[4] = <<3, 1, 1>>

\* C5: subset_partitions(partition) is the concatenation for d = 0..D of the
\* output of generate_partitions(d): degrees are non-decreasing, the first
\* element is the empty partition, every partition of every degree 0..D occurs
\* exactly once, and the length is p(0) + ... + p(D) (7 for D = 3).
C5_SubsetConcat ==
    pc = "subset_done" =>
        LET D == degree(sub.partition)
            res == sub.result
        IN  /\ res = ConcatUpTo(0, D)
            /\ \A i \in 1..(Len(res) - 1) : degree(res[i]) <= degree(res[i + 1])
            /\ res[1] = <<>>
            /\ NoDuplicates(res)
            /\ \A d \in 0..D :
                   {Mult(res[i], d) : i \in {j \in DOMAIN res : degree(res[j]) = d}}
                      = BruteMults(d, d)
            /\ \A i \in DOMAIN res : IsPartitionOf(res[i], degree(res[i]))
                                       /\ degree(res[i]) <= D
            /\ Len(res) = SumP(D)
            /\ (D = 3 => Len(res) = 7)

C5_Witness ==
    /\ pc = "subset_done"
    /\ degree(sub.partition) = 3
    /\ Len(sub.result) = 7

\* C6: solve_system reports infeasibility as an empty list: the result is
\* empty when k2 >= k1 or k4 >= k3, when (k1-k2)+(k3-k4)-k < 0, and when
\* (k1-k2)+(k3-k4)-k > min(k1-k2, k3-k4); e.g. for (1,5,2,4,1) and (2,5,2,4,1).
C6_InfeasibleEmpty ==
    LET x == (slv.k1 - slv.k2) + (slv.k3 - slv.k4) - slv.k
        infeasible == \/ slv.k2 >= slv.k1
                      \/ slv.k4 >= slv.k3
                      \/ x < 0
                      \/ x > Min(slv.k1 - slv.k2, slv.k3 - slv.k4)
    IN  /\ (pc \in {"solve_loop", "solve_done"} /\ infeasible =>
               pc = "solve_done" /\ slv.solutions = <<>>)
        /\ (pc \in {"solve_loop", "solve_done"}
              /\ <<slv.k1, slv.k2, slv.k3, slv.k4>> \in {<<5, 5, 3, 1>>, <<5, 2, 4, 1>>}
              /\ (slv.k2 < slv.k1 => slv.k \in {1, 2})
              => pc = "solve_done" /\ slv.solutions = <<>>)

C6_Witness ==
    /\ pc = "solve_done"
    /\ <<slv.k, slv.k1, slv.k2, slv.k3, slv.k4>> = <<2, 5, 2, 4, 1>>
    /\ slv.ret = "noroom"
    /\ slv.solutions = <<>>

\* C7: the records of a result are in strictly increasing order of x2, so no
\* two share an x2, and all carry the same x1 = (k1 - k2) + (k3 - k4) - k.
C7_IncreasingX2 ==
    /\ \A i \in 1..(Len(slv.solutions) - 1) :
           slv.solutions[i].deg_gamma < slv.solutions[i + 1].deg_gamma
    /\ \A i \in DOMAIN slv.solutions :
           slv.solutions[i].deg_delta
              = (slv.k1 - slv.k2) + (slv.k3 - slv.k4) - slv.k

C7_Witness ==
    /\ pc = "solve_done"
    /\ Len(slv.solutions) >= 3
    /\ slv.solutions[1].deg_gamma < slv.solutions[3].deg_gamma

\* C8 as stated: in every record all six values are non-negative, for any
\* five integer arguments.
C8_AllSixNonNegative ==
    \A i \in DOMAIN slv.solutions :
        LET r == slv.solutions[i]
        IN  /\ r.deg_delta >= 0 /\ r.deg_gamma >= 0 /\ r.p >= 0 /\ r.q >= 0
            /\ r.deg_lambda_p >= 0 /\ r.deg_mu_p >= 0

\* C8 amended: in every record the four unknowns are non-negative and the two
\* reference degrees are the arguments k2 and k4 unchanged, so all six values
\* are non-negative whenever k2 >= 0 and k4 >= 0.
C8_UnknownsNonNegativeDegreesCopied ==
    \A i \in DOMAIN slv.solutions :
        LET r == slv.solutions[i]
        IN  /\ r.deg_delta >= 0 /\ r.deg_gamma >= 0 /\ r.p >= 0 /\ r.q >= 0
            /\ r.deg_lambda_p = slv.k2 /\ r.deg_mu_p = slv.k4
            /\ (slv.k2 >= 0 /\ slv.k4 >= 0 =>
                   r.deg_lambda_p >= 0 /\ r.deg_mu_p >= 0)

C8_Witness ==
    /\ pc = "solve_done"
    /\ slv.k2 < 0
    /\ slv.k4 >= 0
    /\ slv.solutions # <<>>
    /\ slv.solutions[1].deg_lambda_p = slv.k2

\* C9: when Master calls the solver, the parameters get the documented roles
\* k1 = |lam|, k2 = deg lam', k3 = |mu|, k4 = deg mu': every record shown has
\* deg lam' and deg mu' fields equal to the degrees of the chosen lam' and mu',
\* and the result is solve_system(k, |lam|, deg lam', |mu|, deg mu').
C9_DocumentedRoles ==
    pc = "master_done" =>
        /\ mst.sols = solve_system(mst.k, degree(mst.lam), degree(mst.lam_prime),
                                   degree(mst.mu), degree(mst.mu_prime))
        /\ \A i \in DOMAIN mst.sols :
               /\ mst.sols[i].deg_lambda_p = degree(mst.lam_prime)
               /\ mst.sols[i].deg_mu_p = degree(mst.mu_prime)

\* C10: in the search loop the non-negativity rejection is never taken: a
\* candidate is dropped only by the strict bound checks, and the number of
\* records is at most min(k1 - k2, k3 - k4) - x1 + 1.
C10_NoNegativeRejection ==
    slv.ret \in {"loop", "end"} =>
        /\ slv.branch # "neg"
        /\ \A x2 \in 0..(Min(slv.k1 - slv.k2, slv.k3 - slv.k4) - slv.x1) :
               /\ (slv.k1 - slv.k2) - (slv.x1 + x2) >= 0
               /\ (slv.k3 - slv.k4) - (slv.x1 + x2) >= 0
        /\ slv.x2 <= Min(slv.k1 - slv.k2, slv.k3 - slv.k4) - slv.x1 + 1
        /\ Len(slv.solutions)
              <= Min(slv.k1 - slv.k2, slv.k3 - slv.k4) - slv.x1 + 1

C10_Witness ==
    /\ pc = "solve_loop"
    /\ slv.branch \in {"k1", "k3"}
    /\ slv.x2 = slv.max_x2 + 1
    /\ slv.solutions # <<>>

====
